---- MODULE Spec2Model ----
(***************************************************************************)
(* A model of eegtools/eeg_dipole.py: the command line of the dipole       *)
(* source localization tool, main() statement group by statement group,    *)
(* apply_inverse_operator() and the top-level handler under                *)
(* `if __name__ == '__main__'`.                                            *)
(*                                                                         *)
(* Python values are records [t, v, s]: t is the Python type, v the number *)
(* the truth value is computed from (a float's value, a container's length)*)
(* and s says where the value came from. Calls into the mne library are    *)
(* opaque: each is logged in `calls`, returns an object of the documented  *)
(* type, or raises.                                                        *)
(***************************************************************************)
EXTENDS Integers, Sequences, FiniteSets, TLC

\* ---------------------------------------------------------------- bounds
\* Time options (--noise-begin, --noise-end) range over 0..MaxTime seconds.
MaxTime == 1
\* An epochs file holds 0..MaxEpochs epochs.
MaxEpochs == 1
\* A trigger channel holds 0..MaxEvents events.
MaxEvents == 1

\* ------------------------------------------------------ program constants
\* tmax of the baseline covariance, in hundredths of a second (-0.01 s).
BaselineTmax == -1
\* Defaults of --event-begin / --event-end, in tenths of a second.
EventBeginDefault == -2
EventEndDefault == 5
\* The two signal-to-noise ratios of line 121.
SnrAveraged == 3
SnrRaw == 1
\* The exit code of the no-argument exit and of the top-level handler.
ExitFailure == -1
\* The exit code of argparse's error().
ExitUsage == 2
\* The columns per event of the array mne.find_events returns.
EventColumns == 3

\* ---------------------------------------------------------- Python values
PyVal(t, v, s) == [t |-> t, v |-> v, s |-> s]
None == PyVal("NoneType", 0, "None")
Unbound == PyVal("unbound", 0, "unbound")
PyStr(s) == PyVal("str", IF s = "" THEN 0 ELSE 1, s)
PyFloat(x) == PyVal("float", x, "argv")

\* Python's truth value of an object that defines it without raising:
\* None is false, a number is true iff nonzero, a string and an object with
\* __len__ (Epochs, list) iff nonempty, any other object is true.
Truthy(x) ==
    CASE x.t = "NoneType" -> FALSE
      [] x.t \in {"float", "str", "Epochs", "list"} -> x.v # 0
      [] OTHER -> TRUE

\* The outcomes of bool(x): for a numpy array the truth value is defined
\* only for one element; for more it raises ValueError, for none it is
\* False or (newer numpy) raises.
BoolOutcomes(x) ==
    IF x.t = "ndarray"
    THEN IF x.v = 0 THEN {"False", "ValueError"}
         ELSE IF x.v = 1 THEN {"True", "False"} ELSE {"ValueError"}
    ELSE IF Truthy(x) THEN {"True"} ELSE {"False"}

\* `a or b` and `a and b` return one of their operands.
PyOr(a, b) == IF Truthy(a) THEN a ELSE b
PyAnd(a, b) == IF Truthy(a) THEN b ELSE a

\* Attribute lookup on an argparse Namespace (a function from dest names).
HasAttr(ns, name) == name \in DOMAIN ns

\* A logged library call: the function, what it was applied to, an option.
Call(fn, on, opt) == [fn |-> fn, on |-> on, opt |-> opt]

\* ------------------------------------------------------------ command line
DSL_METHODS == <<"dSPM", "MNE", "sLORETA", "eLORETA">>
INPUT_TYPES == <<"raw", "epochs", "evokeds">>

\* common.use_first_as_default: the list as choices, its head as default.
use_first_as_default(values) ==
    [choices |-> {values[i] : i \in 1..Len(values)}, default |-> values[1]]

\* What the user may type after -t: the three words of the help text of the
\* tool's documentation and the one the source lists instead of "evoked".
TypedTypes == {"raw", "epochs", "evoked", "evokeds"}

OptTimes == {None} \cup {PyFloat(x) : x \in 0..MaxTime}
OptNames == {None, PyStr("given")}

\* The Namespace parse_args() builds from a command line.
Namespace(type, stim, annotated, nfile, nbegin, nend) ==
    [input |-> PyStr("input.fif"),
     type |-> PyStr(type),
     fwd_file |-> PyStr("fwd.fif"),
     method |-> PyStr(use_first_as_default(DSL_METHODS).default),
     begin |-> PyFloat(0),
     end |-> PyFloat(1),
     noise_file |-> nfile,
     noise_begin |-> nbegin,
     noise_end |-> nend,
     stim |-> stim,
     annotated |-> annotated,
     event_begin |-> PyFloat(EventBeginDefault),
     event_end |-> PyFloat(EventEndDefault),
     output |-> PyStr("out"),
     gzip |-> None,
     jobs |-> None]

DefaultNamespace ==
    Namespace(use_first_as_default(INPUT_TYPES).default, None, None, None, None, None)

CommandLines ==
    {Namespace(ty, st, an, nf, nb, ne) :
        ty \in TypedTypes, st \in OptNames, an \in OptNames,
        nf \in OptNames, nb \in OptTimes, ne \in OptTimes}

VARIABLES
    pc,         \* the statement group of main() about to run, or the handler
    argc,       \* len(sys.argv)
    argv,       \* the options typed, as the Namespace they parse to
    args,       \* the Namespace of main()
    raw, epochs, evoked,
    events,
    noise_raw, noise_cov,
    info,       \* the object whose .info goes to make_inverse_operator
    inv_op,
    snr, lambda2,
    window,     \* the object whose time base converted --begin/--end
    stc,
    calls,      \* the library and file calls made so far
    stderr,     \* the lines printed to standard error
    exc,        \* the exception in flight, "none" if none
    tb,         \* the statement group that raised it
    exitCode

vars == <<pc, argc, argv, args, raw, epochs, evoked, events, noise_raw,
          noise_cov, info, inv_op, snr, lambda2, window, stc, calls, stderr,
          exc, tb, exitCode>>

locals == <<raw, epochs, evoked, events, noise_raw, noise_cov, info, inv_op,
            snr, lambda2, window, stc>>

Init ==
    /\ pc = "check_usage"
    /\ \/ argc = 1 /\ argv = DefaultNamespace
       \/ argc = 2 /\ argv \in CommandLines
    /\ args = DefaultNamespace
    /\ raw = Unbound /\ epochs = Unbound /\ evoked = Unbound
    /\ events = Unbound
    /\ noise_raw = Unbound /\ noise_cov = Unbound
    /\ info = Unbound /\ inv_op = Unbound
    /\ snr = 0 /\ lambda2 = <<0, 1>>
    /\ window = Unbound /\ stc = Unbound
    /\ calls = <<>>
    /\ stderr = <<>>
    /\ exc = "none" /\ tb = "none"
    /\ exitCode = 0

\* Raising: control leaves main() for the handler of lines 134-144.
Raise(cls) ==
    /\ pc' = "handler"
    /\ exc' = cls
    /\ tb' = pc
    /\ UNCHANGED exitCode

\* sys.exit(code): a SystemExit that carries the exit code.
SysExit(code) ==
    /\ pc' = "handler"
    /\ exc' = "SystemExit"
    /\ tb' = pc
    /\ exitCode' = code

Goto(step) ==
    /\ pc' = step
    /\ UNCHANGED <<exc, tb, exitCode>>

\* lines 65-68: no arguments: usage on stderr, parser.exit(-1).
CheckUsage ==
    /\ pc = "check_usage"
    /\ IF argc = 1
       THEN /\ stderr' = Append(stderr, "usage")
            /\ SysExit(ExitFailure)
       ELSE /\ Goto("parse_args")
            /\ UNCHANGED stderr
    /\ UNCHANGED <<argc, argv, args, locals, calls>>

\* lines 70-73: parse_args() rejects a --type outside the choices with
\* usage and a message on stderr and exit code 2.
ParseArgs ==
    /\ pc = "parse_args"
    /\ IF argv.type.s \in use_first_as_default(INPUT_TYPES).choices
       THEN /\ args' = argv
            /\ Goto("resolve_input")
            /\ UNCHANGED stderr
       ELSE /\ stderr' = stderr \o <<"usage", "error: invalid choice">>
            /\ SysExit(ExitUsage)
            /\ UNCHANGED args
    /\ UNCHANGED <<argc, argv, locals, calls>>

\* lines 77-83: the branch of the type dispatch that args.type selects.
LoaderOf(type) ==
    CASE type = PyStr("raw") -> "mne.io.read_raw"
      [] type = PyStr("epochs") -> "read_epochs"
      [] type = PyStr("evoked") -> "read_evokeds"
      [] OTHER -> "none"

\* What each loader returns for a file of n items: read_raw a Raw,
\* read_epochs a preloaded Epochs of n epochs, read_evokeds a list of n Evoked.
Loaded(loader, n) ==
    CASE loader = "mne.io.read_raw" -> PyVal("Raw", 1, "input")
      [] loader = "read_epochs" -> PyVal("Epochs", n, "input")
      [] loader = "read_evokeds" -> PyVal("list", n, "input")
      [] OTHER -> None

\* lines 75-83: input resolution.
ResolveInput ==
    /\ pc = "resolve_input"
    /\ \E ok \in BOOLEAN, n \in 0..MaxEpochs :
        LET loader == LoaderOf(args.type)
            obj == Loaded(loader, n)
        IN  IF loader = "none"
            THEN /\ raw' = None /\ epochs' = None /\ evoked' = None
                 /\ Goto("detect_events")
                 /\ UNCHANGED calls
            ELSE /\ calls' = Append(calls, Call(loader, "input", <<>>))
                 /\ IF ok
                    THEN /\ raw' = IF obj.t = "Raw" THEN obj ELSE None
                         /\ epochs' = IF obj.t = "Epochs" THEN obj ELSE None
                         /\ evoked' = IF obj.t = "list" THEN obj ELSE None
                         /\ Goto("detect_events")
                    ELSE /\ raw' = None /\ epochs' = None /\ evoked' = None
                         /\ Raise("OSError")
    /\ UNCHANGED <<argc, argv, args, events, noise_raw, noise_cov, info,
                   inv_op, snr, lambda2, window, stc, stderr>>

\* lines 85-92: event detection, entered when a recording is loaded and
\* no epochs exist. The annotation branch reads args.annotations.
DetectEvents ==
    /\ pc = "detect_events"
    /\ IF Truthy(raw) /\ ~Truthy(epochs)
       THEN IF Truthy(args.stim)
            THEN \E ok \in BOOLEAN, n \in 0..MaxEvents :
                    /\ calls' = Append(calls, Call("mne.find_events", raw.s, <<>>))
                    /\ IF ok
                       THEN /\ events' = PyVal("ndarray", n * EventColumns, "stim")
                            /\ Goto("segment")
                       ELSE /\ Raise("ValueError")
                            /\ UNCHANGED events
            ELSE IF Truthy(args.annotated)
            THEN IF HasAttr(args, "annotations")
                 THEN \E n \in 0..MaxEvents :
                        /\ calls' = Append(calls,
                              Call("mne.events_from_annotations", raw.s, <<>>))
                        /\ events' = PyVal("ndarray", n * EventColumns, "annotations")
                        /\ Goto("segment")
                 ELSE /\ Raise("AttributeError")
                      /\ UNCHANGED <<events, calls>>
            ELSE /\ events' = None
                 /\ Goto("segment")
                 /\ UNCHANGED calls
       ELSE /\ Goto("average")
            /\ UNCHANGED <<events, calls>>
    /\ UNCHANGED <<argc, argv, args, raw, epochs, evoked, noise_raw, noise_cov,
                   info, inv_op, snr, lambda2, window, stc, stderr>>

\* lines 94-96: `if events:` and the segmentation into epochs.
Segment ==
    /\ pc = "segment"
    /\ \E b \in BoolOutcomes(events), ok \in BOOLEAN :
        IF b = "ValueError"
        THEN /\ Raise("ValueError")
             /\ UNCHANGED <<epochs, calls>>
        ELSE IF b = "True"
        THEN /\ calls' = calls \o
                    <<Call("time_as_index", raw.s,
                           <<args.event_begin.v, args.event_end.v>>),
                      Call("mne.Epochs", raw.s, <<>>)>>
             /\ IF ok
                THEN /\ epochs' = PyVal("Epochs", events.v \div EventColumns, "raw")
                     /\ Goto("average")
                ELSE /\ Raise("ValueError")
                     /\ UNCHANGED epochs
        ELSE /\ Goto("average")
             /\ UNCHANGED <<epochs, calls>>
    /\ UNCHANGED <<argc, argv, args, raw, evoked, events, noise_raw, noise_cov,
                   info, inv_op, snr, lambda2, window, stc, stderr>>

\* A dropped `not` in the averaging condition.
ShouldAverageNoNot(ep, ev) == Truthy(ep) /\ Truthy(ev)

\* line 98: `epochs and not evoked`.
ShouldAverage(ep, ev) == Truthy(ep) /\ ~Truthy(ev)

\* lines 98-99: averaging.
Average ==
    /\ pc = "average"
    /\ IF ShouldAverage(epochs, evoked)
       THEN \E ok \in BOOLEAN :
              /\ calls' = Append(calls, Call("Epochs.average", epochs.s, <<>>))
              /\ IF ok
                 THEN /\ evoked' = PyVal("Evoked", 1, "average")
                      /\ Goto("read_forward")
                 ELSE /\ Raise("RuntimeError")
                      /\ UNCHANGED evoked
       ELSE /\ Goto("read_forward")
            /\ UNCHANGED <<evoked, calls>>
    /\ UNCHANGED <<argc, argv, args, raw, epochs, events, noise_raw, noise_cov,
                   info, inv_op, snr, lambda2, window, stc, stderr>>

\* line 101: the forward solution.
ReadForward ==
    /\ pc = "read_forward"
    /\ calls' = Append(calls, Call("mne.read_forward_solution", "fwd_file", <<>>))
    /\ \E ok \in BOOLEAN :
        IF ok THEN Goto("select_noise") ELSE Raise("OSError")
    /\ UNCHANGED <<argc, argv, args, locals, stderr>>

\* The recording itself as the noise source whenever no file is given.
NoiseSourceAlwaysCopy(a) ==
    IF Truthy(a.noise_file) THEN "file" ELSE "copy"

\* No noise source but the file: the `elif` of line 105 left out.
NoiseSourceFileOnly(a) ==
    IF Truthy(a.noise_file) THEN "file" ELSE "none"

\* lines 103-108: the conditions that choose the noise recording.
NoiseSource(a) ==
    IF Truthy(a.noise_file) THEN "file"
    ELSE IF Truthy(PyOr(a.noise_begin, a.noise_end)) THEN "copy"
    ELSE "none"

\* lines 103-108: the recording the noise covariance is computed from.
SelectNoise ==
    /\ pc = "select_noise"
    /\ IF NoiseSource(args) = "file"
       THEN \E ok \in BOOLEAN :
              /\ calls' = Append(calls, Call("mne.io.read_raw", "noise_file", <<>>))
              /\ IF ok
                 THEN /\ noise_raw' = PyVal("Raw", 1, "noise_file")
                      /\ Goto("crop_noise")
                 ELSE /\ Raise("OSError")
                      /\ UNCHANGED noise_raw
       ELSE IF NoiseSource(args) = "copy"
       THEN IF raw.t = "Raw"
            THEN /\ calls' = Append(calls, Call("Raw.copy", raw.s, <<>>))
                 /\ noise_raw' = PyVal("Raw", 1, "copy")
                 /\ Goto("crop_noise")
            ELSE /\ Raise("AttributeError")
                 /\ UNCHANGED <<noise_raw, calls>>
       ELSE /\ noise_raw' = None
            /\ Goto("crop_noise")
            /\ UNCHANGED calls
    /\ UNCHANGED <<argc, argv, args, raw, epochs, evoked, events, noise_cov,
                   info, inv_op, snr, lambda2, window, stc, stderr>>

\* line 110: `noise_raw and args.noise_begin or args.noise_end`.
CropCondition(nr, a) == Truthy(PyOr(PyAnd(nr, a.noise_begin), a.noise_end))

\* line 111: the arguments of crop: (args.noise_begin or 0, args.noise_end).
CropArgs(a) ==
    <<PyOr(a.noise_begin, PyFloat(0)).v>> \o
    (IF a.noise_end.t = "NoneType" THEN <<>> ELSE <<a.noise_end.v>>)

\* lines 110-111: cropping of the noise recording.
CropNoise ==
    /\ pc = "crop_noise"
    /\ IF CropCondition(noise_raw, args)
       THEN IF noise_raw.t = "Raw"
            THEN \E ok \in BOOLEAN :
                   /\ calls' = Append(calls, Call("Raw.crop", noise_raw.s, CropArgs(args)))
                   /\ IF ok THEN Goto("noise_covariance") ELSE Raise("ValueError")
            ELSE /\ Raise("AttributeError")
                 /\ UNCHANGED calls
       ELSE /\ Goto("noise_covariance")
            /\ UNCHANGED calls
    /\ UNCHANGED <<argc, argv, args, locals, stderr>>

\* The `elif epochs` branch of line 115 left out.
CovarianceRoutineRawOnly(nr, ep) ==
    IF Truthy(nr) THEN "compute_raw_covariance" ELSE "none"

\* lines 113 and 115: the covariance routine the conditions select.
CovarianceRoutine(nr, ep) ==
    IF Truthy(nr) THEN "compute_raw_covariance"
    ELSE IF Truthy(ep) THEN "compute_covariance"
    ELSE "none"

\* lines 113-116: the noise covariance; neither branch binds noise_cov
\* when there is no noise recording and there are no epochs.
NoiseCovariance ==
    /\ pc = "noise_covariance"
    /\ IF CovarianceRoutine(noise_raw, epochs) = "compute_raw_covariance"
       THEN \E ok \in BOOLEAN :
              /\ calls' = Append(calls, Call("compute_raw_covariance", noise_raw.s, <<>>))
              /\ IF ok
                 THEN /\ noise_cov' = PyVal("Covariance", 1, "compute_raw_covariance")
                      /\ Goto("make_inverse")
                 ELSE /\ Raise("ValueError")
                      /\ UNCHANGED noise_cov
       ELSE IF CovarianceRoutine(noise_raw, epochs) = "compute_covariance"
       THEN \E ok \in BOOLEAN :
              /\ calls' = Append(calls,
                    Call("compute_covariance", epochs.s, <<BaselineTmax>>))
              /\ IF ok
                 THEN /\ noise_cov' = PyVal("Covariance", 1, "compute_covariance")
                      /\ Goto("make_inverse")
                 ELSE /\ Raise("ValueError")
                      /\ UNCHANGED noise_cov
       ELSE /\ Goto("make_inverse")
            /\ UNCHANGED <<noise_cov, calls>>
    /\ UNCHANGED <<argc, argv, args, raw, epochs, evoked, events, noise_raw,
                   info, inv_op, snr, lambda2, window, stc, stderr>>

\* lines 118 and 123: `raw or epochs or evoked`.
FirstAvailable(r, ep, ev) == PyOr(PyOr(r, ep), ev)

\* The objects that have .info and .time_as_index.
IsRepresentation(x) == x.t \in {"Raw", "Epochs", "Evoked"}

\* lines 118-119: the inverse operator.
MakeInverse ==
    /\ pc = "make_inverse"
    /\ LET src == FirstAvailable(raw, epochs, evoked)
       IN  IF ~IsRepresentation(src)
           THEN /\ Raise("AttributeError")
                /\ UNCHANGED <<info, inv_op, calls>>
           ELSE IF noise_cov = Unbound
           THEN /\ info' = src
                /\ Raise("UnboundLocalError")
                /\ UNCHANGED <<inv_op, calls>>
           ELSE \E ok \in BOOLEAN :
                  /\ info' = src
                  /\ calls' = Append(calls, Call("make_inverse_operator", src.t, <<>>))
                  /\ IF ok
                     THEN /\ inv_op' = PyVal("InverseOperator", 1, noise_cov.s)
                          /\ Goto("regularize")
                     ELSE /\ Raise("ValueError")
                          /\ UNCHANGED inv_op
    /\ UNCHANGED <<argc, argv, args, raw, epochs, evoked, events, noise_raw,
                   noise_cov, snr, lambda2, window, stc, stderr>>

\* The two ratios of line 121 swapped.
SnrOfSwapped(ep, ev) == IF Truthy(PyOr(ep, ev)) THEN SnrRaw ELSE SnrAveraged

\* line 121: `snr = 3 if epochs or evoked else 1`.
SnrOf(ep, ev) == IF Truthy(PyOr(ep, ev)) THEN SnrAveraged ELSE SnrRaw

\* line 122: `lambda2 = 1 / snr ** 2`, as the fraction <<numerator, denominator>>.
Lambda2Of(n) == <<1, n * n>>

\* lines 121-123: the regularization parameter and the sample window.
Regularize ==
    /\ pc = "regularize"
    /\ snr' = SnrOf(epochs, evoked)
    /\ lambda2' = Lambda2Of(snr')
    /\ LET base == FirstAvailable(raw, epochs, evoked)
       IN  IF ~IsRepresentation(base)
           THEN /\ Raise("AttributeError")
                /\ UNCHANGED <<window, calls>>
           ELSE \E ok \in BOOLEAN :
                  /\ calls' = Append(calls,
                        Call("time_as_index", base.t, <<args.begin.v, args.end.v>>))
                  /\ IF ok
                     THEN /\ window' = base
                          /\ Goto("apply_inverse")
                     ELSE /\ Raise("ValueError")
                          /\ UNCHANGED window
    /\ UNCHANGED <<argc, argv, args, raw, epochs, evoked, events, noise_raw,
                   noise_cov, info, inv_op, stc, stderr>>

\* lines 55-62: the routine apply_inverse_operator hands the data to;
\* "none" when it falls off the end and returns None.
apply_inverse_operator(r, ep, ev) ==
    IF Truthy(ev) THEN [fn |-> "apply_inverse", data |-> ev]
    ELSE IF Truthy(ep) THEN [fn |-> "apply_inverse_epochs", data |-> ep]
    ELSE IF Truthy(r) THEN [fn |-> "apply_inverse_raw", data |-> r]
    ELSE [fn |-> "none", data |-> None]

\* lines 124-125: inverse application.
ApplyInverse ==
    /\ pc = "apply_inverse"
    /\ LET d == apply_inverse_operator(raw, epochs, evoked)
       IN  IF d.fn = "none"
           THEN /\ stc' = None
                /\ Goto("write_output")
                /\ UNCHANGED calls
           ELSE \E ok \in BOOLEAN :
                  /\ calls' = Append(calls, Call(d.fn, d.data.t, lambda2))
                  /\ IF ok
                     THEN /\ stc' = PyVal("SourceEstimate", 1, d.fn)
                          /\ Goto("write_output")
                     ELSE /\ Raise("ValueError")
                          /\ UNCHANGED stc
    /\ UNCHANGED <<argc, argv, args, raw, epochs, evoked, events, noise_raw,
                   noise_cov, info, inv_op, snr, lambda2, window, stderr>>

\* lines 127-131: the inverse operator is written, then the source estimate.
WriteOutput ==
    /\ pc = "write_output"
    /\ \E ok1 \in BOOLEAN, ok2 \in BOOLEAN :
        IF ~ok1
        THEN /\ calls' = Append(calls, Call("write_inverse_operator", "inv_file", <<>>))
             /\ Raise("OSError")
        ELSE IF stc.t # "SourceEstimate"
        THEN /\ calls' = Append(calls, Call("write_inverse_operator", "inv_file", <<>>))
             /\ Raise("AttributeError")
        ELSE /\ calls' = calls \o
                    <<Call("write_inverse_operator", "inv_file", <<>>),
                      Call("SourceEstimate.save", "stc_file", <<>>)>>
             /\ IF ok2 THEN Goto("return") ELSE Raise("OSError")
    /\ UNCHANGED <<argc, argv, args, locals, stderr>>

\* lines 135-136: main() returned None and sys.exit(None) exits with 0.
Return ==
    /\ pc = "return"
    /\ SysExit(0)
    /\ UNCHANGED <<argc, argv, args, locals, calls, stderr>>

\* The steps of main(), where a KeyboardInterrupt can arrive.
MainSteps ==
    {"check_usage", "parse_args", "resolve_input", "detect_events", "segment",
     "average", "read_forward", "select_noise", "crop_noise", "noise_covariance",
     "make_inverse", "regularize", "apply_inverse", "write_output", "return"}

\* Ctrl-C while main() runs.
Interrupt ==
    /\ pc \in MainSteps
    /\ Raise("KeyboardInterrupt")
    /\ UNCHANGED <<argc, argv, args, locals, calls, stderr>>

\* A handler that catches BaseException: SystemExit is caught too.
IsBaseException(cls) == cls \notin {"KeyboardInterrupt", "none"}

\* `except Exception` catches every exception class but the two that derive
\* from BaseException alone.
IsException(cls) == cls \notin {"SystemExit", "KeyboardInterrupt", "none"}

\* lines 134-144: the top-level handler.
Handler ==
    /\ pc = "handler"
    /\ IF exc = "KeyboardInterrupt"
       THEN /\ stderr' = Append(stderr, "Interrupted.")
            /\ exitCode' = ExitFailure
       ELSE IF IsException(exc)
       THEN /\ stderr' = Append(stderr, "Error: e.")
            /\ exitCode' = ExitFailure
       ELSE UNCHANGED <<stderr, exitCode>>
    /\ pc' = "exited"
    /\ UNCHANGED <<argc, argv, args, locals, calls, exc, tb>>

Next ==
    \/ CheckUsage
    \/ ParseArgs
    \/ ResolveInput
    \/ DetectEvents
    \/ Segment
    \/ Average
    \/ ReadForward
    \/ SelectNoise
    \/ CropNoise
    \/ NoiseCovariance
    \/ MakeInverse
    \/ Regularize
    \/ ApplyInverse
    \/ WriteOutput
    \/ Return
    \/ Interrupt
    \/ Handler

Spec == Init /\ [][Next]_vars

\* ------------------------------------------------------------- properties
IsSet(x) == x.t \notin {"NoneType", "unbound"}
Called(fn) == \E i \in DOMAIN calls : calls[i].fn = fn
CalledOn(fn, on) == \E i \in DOMAIN calls : calls[i].fn = fn /\ calls[i].on = on
Printed(line) == \E i \in DOMAIN stderr : stderr[i] = line
Loaders == {"mne.io.read_raw", "read_epochs", "read_evokeds"}
InputLoads == SelectSeq(calls, LAMBDA c : c.fn \in Loaders /\ c.on = "input")
AfterMakeInverse == {"regularize", "apply_inverse", "write_output", "return"}
Typed == argc > 1

\* The loader that matches each type selector the command line accepts.
MatchingLoader(type) ==
    CASE type = "raw" -> "mne.io.read_raw"
      [] type = "epochs" -> "read_epochs"
      [] type = "evokeds" -> "read_evokeds"
      [] OTHER -> "none"

\* C1: once input resolution is over, exactly the loader matching the
\* accepted type selector has been invoked, the matching one of raw / epochs
\* / evoked is set and the other two are None.
C1_ExactlyTheMatchingLoader ==
    pc = "detect_events" =>
        /\ InputLoads = <<Call(MatchingLoader(args.type.s), "input", <<>>)>>
        /\ IsSet(raw) <=> args.type.s = "raw"
        /\ IsSet(epochs) <=> args.type.s = "epochs"
        /\ IsSet(evoked) <=> args.type.s = "evokeds"

\* The representation the priority evoked > epochs > raw selects.
EvokedFirst(r, ep, ev) == IF IsSet(ev) THEN ev ELSE IF IsSet(ep) THEN ep ELSE r

\* C2: when the inverse has been applied, the metadata given to
\* make_inverse_operator, the time base that converted the window and the
\* data the inverse was applied to are all the representation that the
\* priority evoked > epochs > raw selects.
C2_SamePriorityEverywhere ==
    stc.t = "SourceEstimate" =>
        /\ apply_inverse_operator(raw, epochs, evoked).data = EvokedFirst(raw, epochs, evoked)
        /\ info = EvokedFirst(raw, epochs, evoked)
        /\ window = EvokedFirst(raw, epochs, evoked)

\* C3: with --noise-file the covariance is computed by
\* compute_raw_covariance from the recording read from that file, and that
\* recording has been cropped if and only if --noise-begin or --noise-end
\* is present on the command line.
C3_NoiseFileCovariance ==
    (Typed /\ argv.noise_file # None) =>
        /\ ~Called("compute_covariance")
        /\ ~Called("Raw.copy")
        /\ noise_cov # Unbound =>
              /\ noise_cov.s = "compute_raw_covariance"
              /\ CalledOn("compute_raw_covariance", "noise_file")
        /\ pc = "make_inverse" => noise_cov # Unbound
        /\ pc = "noise_covariance" =>
              (CalledOn("Raw.crop", "noise_file")
                 <=> (argv.noise_begin # None \/ argv.noise_end # None))

\* C4: every inverse application to evoked or epochs data is made with
\* lambda2 = 1/9 and SNR 3, every one to raw data with lambda2 = 1 and SNR 1.
C4_Lambda2FollowsRepresentation ==
    \A i \in DOMAIN calls :
        /\ calls[i].fn \in {"apply_inverse", "apply_inverse_epochs"} =>
              (calls[i].opt = <<1, 9>> /\ snr = 3 /\ calls[i].on \in {"Evoked", "Epochs"})
        /\ calls[i].fn = "apply_inverse_raw" =>
              (calls[i].opt = <<1, 1>> /\ snr = 1 /\ calls[i].on = "Raw")

\* An inverse applied to the average with lambda2 = 1/9.
C4_AppliedToEvoked ==
    /\ pc = "write_output"
    /\ stc.s = "apply_inverse"
    /\ lambda2 = <<1, 9>>

\* An inverse applied to the recording with lambda2 = 1.
RawInverseReached ==
    /\ pc = "write_output"
    /\ stc.s = "apply_inverse_raw"
    /\ lambda2 = <<1, 1>>

\* A raw input with neither --stim nor --annotated.
RawOnly ==
    /\ Typed
    /\ argv.type.s = "raw"
    /\ argv.stim = None
    /\ argv.annotated = None

\* No noise option selects a recording: each is absent or, for the two
\* bounds, zero.
NoNoiseSelected ==
    /\ argv.noise_file = None
    /\ argv.noise_begin \in {None, PyFloat(0)}
    /\ argv.noise_end \in {None, PyFloat(0)}

\* C5 as stated: a raw input without --stim and --annotated produces no
\* epochs and never gets past inverse-operator construction, whatever the
\* noise options.
C5_RawOnlyNeverBuildsInverse ==
    RawOnly =>
        /\ ~IsSet(epochs)
        /\ inv_op = Unbound
        /\ pc \notin AfterMakeInverse

\* C5 as amended: a raw input without --stim and --annotated produces no
\* epochs; when no noise option selects a recording the covariance stays
\* unbound and the run ends at inverse-operator construction with
\* UnboundLocalError; when one does, the covariance is computed from a
\* recording and is bound when inverse-operator construction starts.
C5_RawOnlyNeedsNoiseRecording ==
    RawOnly =>
        /\ ~IsSet(epochs)
        /\ ~Called("mne.Epochs")
        /\ NoNoiseSelected =>
              /\ noise_cov = Unbound
              /\ inv_op = Unbound
              /\ pc \notin AfterMakeInverse
              /\ (tb = "make_inverse" /\ exc # "KeyboardInterrupt")
                    => exc = "UnboundLocalError"
        /\ (~NoNoiseSelected /\ pc = "make_inverse") =>
              noise_cov.s = "compute_raw_covariance"

\* A raw-only run without noise options that ended at line 119.
C5_FailedAtInverseOperator ==
    /\ RawOnly
    /\ NoNoiseSelected
    /\ pc = "exited"
    /\ tb = "make_inverse"
    /\ exc = "UnboundLocalError"
    /\ Printed("Error: e.")

\* A raw-only run that built its inverse operator from a noise recording.
RawOnlyInverseReached ==
    /\ RawOnly
    /\ inv_op.t = "InverseOperator"
    /\ pc = "exited"
    /\ exitCode = 0

\* An epochs input with no noise option at all.
EpochsNoNoise ==
    /\ Typed
    /\ argv.type.s = "epochs"
    /\ argv.noise_file = None
    /\ argv.noise_begin = None
    /\ argv.noise_end = None

C7_NoArguments ==
    argc = 1 =>
        /\ pc \in {"check_usage", "handler", "exited"}
        /\ calls = <<>>
        /\ ~Printed("Error: e.")
        /\ exc = "SystemExit" =>
              /\ tb = "check_usage"
              /\ stderr = <<"usage">>
              /\ exitCode = -1

\* The process has exited on the no-argument path.
C7_UsageExit ==
    /\ argc = 1
    /\ pc = "exited"
    /\ exc = "SystemExit"
    /\ exitCode = -1
    /\ stderr = <<"usage">>

\* C8: for a raw input with --annotated and no --stim, event detection does
\* not fail on its own and yields events from the annotations of the
\* recording.
C8_AnnotationMode ==
    (Typed /\ argv.type.s = "raw" /\ argv.stim = None /\ argv.annotated # None) =>
        /\ ~(tb = "detect_events" /\ exc # "KeyboardInterrupt")
        /\ pc = "segment" =>
              (events.s = "annotations" /\ Called("mne.events_from_annotations"))

\* --noise-end (nonzero) given without --noise-file and --noise-begin.
NoiseEndAlone ==
    /\ Typed
    /\ argv.noise_file = None
    /\ argv.noise_begin = None
    /\ Truthy(argv.noise_end)

\* The cropping statement of line 111 has been executed.
CropExecuted ==
    \/ Called("Raw.crop")
    \/ tb = "crop_noise" /\ exc \in {"AttributeError", "ValueError"}

\* C9 as stated: with --noise-end alone the crop of line 111 is executed
\* while noise_raw is unset: once the cropping statement has been passed or
\* has raised AttributeError, noise_raw is unset.
C9_CropWhileUnset ==
    (NoiseEndAlone /\ (pc = "noise_covariance"
                        \/ (tb = "crop_noise" /\ exc = "AttributeError")))
        => ~IsSet(noise_raw)

\* C9 as amended: the crop of line 111 is never executed while noise_raw is
\* unset; whenever the condition of line 110 holds, noise_raw is a recording.
C9_CropOnlyWhenSet ==
    /\ (pc = "crop_noise" /\ CropCondition(noise_raw, args)) => noise_raw.t = "Raw"
    /\ CropExecuted => IsSet(noise_raw)
    /\ ~(tb = "crop_noise" /\ exc = "AttributeError")

\* With --noise-end alone the copy of the recording has been cropped.
C9_CroppedTheCopy ==
    /\ NoiseEndAlone
    /\ CalledOn("Raw.crop", "copy")
    /\ noise_raw = PyVal("Raw", 1, "copy")

\* C10: apply_inverse_epochs is never called, and from inverse application
\* on, set epochs come with the evoked of the averaging step and the evoked
\* branch of apply_inverse_operator.
C10_AlwaysTheEvokedBranch ==
    /\ ~Called("apply_inverse_epochs")
    /\ (pc \in {"apply_inverse", "write_output", "return"} /\ IsSet(epochs)) =>
          /\ evoked = PyVal("Evoked", 1, "average")
          /\ apply_inverse_operator(raw, epochs, evoked).fn = "apply_inverse"
          /\ stc # Unbound => stc.s = "apply_inverse"

\* The inverse has been applied to the average of loaded epochs.
C10_AppliedToTheAverage ==
    /\ pc = "write_output"
    /\ IsSet(epochs)
    /\ evoked.s = "average"
    /\ stc.s = "apply_inverse"
====
